---- MODULE Spec2Model ----
(***************************************************************************)
(* A model of paint_atmospheres: the piecewise-polynomial limb-darkening   *)
(* fit (limbdark/fit.py), the Roche surface (pa/lib/surface.py) and the    *)
(* disk integration (star/star.py).                                        *)
(*                                                                         *)
(* Numbers.  mu, a, b, the boundaries, heights z, sin i, cos i, z1, omega,  *)
(* w and f are integers in units of 1/1000 (mu = 0.025 is 25).             *)
(* An angle phi in [0, pi] is represented by the mu it                     *)
(* maps to under mu = a cos(phi) + b, which is a strictly decreasing       *)
(* function of phi for a > 0.                                              *)
(***************************************************************************)
EXTENDS Integers, Sequences, FiniteSets, TLC

VARIABLES
    \* class-level state of limbdark.fit.Fit
    muB_arr, m, mu_arr_split, F, x,
    \* the Fit objects constructed so far
    fits,
    \* the exception raised by the last operation ("none" when it returned)
    raised,
    \* history: the argument of the last Fit.set_muB call, the number of calls,
    \* the last operation, and what each fit evaluated to when it was constructed
    lastB, calls, lastOp, I_at_init,
    \* history: whether the last Fit.set_muB call returned
    accepted,
    \* the last Fit.integrate call: its arguments and its outcome
    ig,
    \* the Surface object
    surf,
    \* the last Star.integrate call: its locals
    star,
    \* the inputs and the result of the pure computations checked on their own
    z1in, corr,
    \* the class records Fit.I0_min, Fit.min_step, Fit.max_dev: the value [0],
    \* the tag wl (g and temp are copied with it), the tag mu, and, as history,
    \* the index in fits of the object that bound the record
    I0_min, min_step, max_dev,
    \* the threads that run Fit.check side by side
    threads

vars == <<muB_arr, m, mu_arr_split, F, x, fits, raised, lastB, calls, lastOp, I_at_init,
          accepted, ig, surf, star, z1in, corr, I0_min, min_step, max_dev, threads>>

fitVars == <<muB_arr, m, mu_arr_split, F, x, fits, raised, lastB, calls, lastOp, I_at_init,
             accepted>>

recVars == <<I0_min, min_step, max_dev>>
checkVars == <<recVars, threads>>

-----------------------------------------------------------------------------
(* Bounds of the model *)

\* Fit.set_muB calls in one behaviour
MaxCalls == 3
\* Fit objects alive in one behaviour
MaxFits == 2
\* pairs (a, b) in one Fit.integrate call
MaxBatch == 2

-----------------------------------------------------------------------------
(* limbdark/fit.py: module constants *)

\* the number of non-zero functions on a given interval
n == 5

\* np.inf: the value of w for omega = 0 and of the records before any check
inf == 2147483647

\* the values of mu in Castelli and Kurucz 2004, in 1/1000
mu_arr == <<10, 25, 50, 75, 100, 125, 150, 200, 250, 300, 400, 500, 600, 700,
            800, 900, 1000>>

\* the boundary lists passed to Fit.set_muB: valid ones with 0, 1, 2 boundaries,
\* one with a boundary between two reference samples, an unsorted one, one
\* whose first interval holds no reference sample, and one with a boundary
\* beyond 1
BoundLists ==
    { <<>>, <<300>>, <<500>>, <<300, 500>>, <<350>>, <<500, 300>>, <<5>>, <<1500>> }

\* the mu values at which fits are evaluated
EvalPoints == {0, 200, 300, 400, 500, 700, 1000}

\* wavelength tags of the fits
Wavelengths == {1, 2}

-----------------------------------------------------------------------------
(* numpy helpers *)

\* np.searchsorted for one key: the bisection numpy performs, on arr seen
\* 0-based; side = "left" finds the first index with arr[i] >= v, side =
\* "right" the first with arr[i] > v (on a sorted arr)
RECURSIVE bisect(_, _, _, _, _)
bisect(arr, v, side, lo, hi) ==
    IF lo >= hi THEN lo
    ELSE LET mid == lo + ((hi - lo) \div 2)
             mv == arr[mid + 1]
             goRight == IF side = "left" THEN mv < v ELSE mv <= v
         IN  IF goRight THEN bisect(arr, v, side, mid + 1, hi)
             ELSE bisect(arr, v, side, lo, mid)

searchsorted(arr, v, side) == bisect(arr, v, side, 0, Len(arr))

\* np.split(arr, idx): the slices arr[0:idx[0]], arr[idx[0]:idx[1]], ...,
\* arr[idx[-1]:]; a slice whose start is not below its end is empty
np_split(arr, idx) ==
    [k \in 1..(Len(idx) + 1) |->
        LET st == IF k = 1 THEN 0 ELSE idx[k - 1]
            en == IF k = Len(idx) + 1 THEN Len(arr) ELSE idx[k]
        IN  SubSeq(arr, st + 1, en)]

\* np.insert(s, pos, v) for 0 <= pos <= Len(s)
np_insert(s, pos, v) == SubSeq(s, 1, pos) \o <<v>> \o SubSeq(s, pos + 1, Len(s))

-----------------------------------------------------------------------------
(* Fit.set_muB *)

\* fz * i + f + fz * (mm - i - 1): the functions on interval i (0-based), one
\* entry per block of n functions
FRow(i, mm) == [k \in 1..mm |-> IF k = i + 1 THEN "f" ELSE "fz"]

\* the number of functions in a row of F
RowWidth(row) == n * Len(row)

\* the block (0-based) on which a row of F is non-zero
ActiveBlock(row) == (CHOOSE k \in 1..Len(row) : row[k] = "f") - 1

\* the m rows one call appends to F
FRows(mm) == [i \in 1..mm |-> FRow(i - 1, mm)]

\* np.searchsorted(mu_arr, cls.muB_arr[1:])
SplitIdx(muB) == [k \in 1..(Len(muB) - 1) |-> searchsorted(mu_arr, muB[k + 1], "left")]

\* the loop that includes the boundaries twice: mu_arr_split[i + 1][0] raises
\* IndexError on an empty piece, and leaves the pieces before it extended
RECURSIVE DupLoop(_, _, _)
DupLoop(split, i, mm) ==
    IF i >= mm - 1 THEN [split |-> split, err |-> "none"]
    ELSE IF split[i + 2] = <<>> THEN [split |-> split, err |-> "IndexError"]
    ELSE DupLoop([split EXCEPT ![i + 1] = Append(@, split[i + 2][1])], i + 1, mm)

\* xl: for each interval i in range(mm) and each mu of mu_arr_split[i], the
\* row [func(mu) for func in F[i]]: the monomials of mu in the active block
\* of F[i], zero elsewhere
RECURSIVE XRows(_, _, _, _)
XRows(Fl, split, i, mm) ==
    IF i > mm THEN <<>>
    ELSE [k \in 1..Len(split[i]) |-> [mu |-> split[i][k], Fi |-> Fl[i]]]
         \o XRows(Fl, split, i + 1, mm)

\* np.array(xl) is a 2-D array only when all rows have one width
Rect(xl) == \A j, k \in 1..Len(xl) : RowWidth(xl[j].Fi) = RowWidth(xl[k].Fi)

\* set_muB on the class attributes
set_muB_cls(b) ==
    /\ calls < MaxCalls
    /\ LET muB == <<0>> \o b
           mm == Len(b) + 1
           d == DupLoop(np_split(mu_arr, SplitIdx(muB)), 0, mm)
           Fn == F \o FRows(mm)
           xl == XRows(Fn, d.split, 1, mm)
       IN  /\ muB_arr' = muB
           /\ m' = mm
           /\ mu_arr_split' = d.split
           /\ IF d.err # "none"
              THEN /\ F' = F
                   /\ x' = x
                   /\ raised' = d.err
              ELSE /\ F' = Fn
                   \* a ragged xl becomes an object array or raises
                   \* ValueError, depending on the numpy version
                   /\ \/ x' = xl /\ raised' = "none"
                      \/ ~Rect(xl) /\ x' = x /\ raised' = "ValueError"
    /\ lastB' = b
    /\ calls' = calls + 1
    /\ lastOp' = "set_muB"
    /\ accepted' = (raised' = "none")
    /\ UNCHANGED <<fits, I_at_init>>

set_muB(b) ==
    /\ set_muB_cls(b)
    /\ ig' = [pc |-> "idle"]
    /\ UNCHANGED <<surf, star, z1in, corr, checkVars>>

-----------------------------------------------------------------------------
(* Fit.__init__ and Fit.I *)

\* a duplication loop that steps back by the whole length of the next piece
RECURSIVE DupI_early(_, _, _, _)
DupI_early(dup, ind, i, split) ==
    IF i < 0 THEN [dup |-> dup, err |-> "none"]
    ELSE LET ind2 == ind - Len(split[i + 2])
             pos == IF ind2 < 0 THEN ind2 + Len(dup) ELSE ind2
         IN  IF pos < 0 \/ pos >= Len(dup)
             THEN [dup |-> dup, err |-> "IndexError"]
             ELSE DupI_early(np_insert(dup, pos, dup[pos + 1]), ind2, i - 1, split)

\* the loop duplicating the intensity values at the boundaries, on the
\* indices of I_arr: dup[k] is the index (0-based) of the sample at position k
RECURSIVE DupI(_, _, _, _)
DupI(dup, ind, i, split) ==
    IF i < 0 THEN [dup |-> dup, err |-> "none"]
    ELSE LET sub_ind == Len(split[i + 2]) - 1
             ind2 == ind - sub_ind
             pos == IF ind2 < 0 THEN ind2 + Len(dup) ELSE ind2
         IN  IF pos < 0 \/ pos >= Len(dup)
             THEN [dup |-> dup, err |-> "IndexError"]
             ELSE DupI(np_insert(dup, pos, dup[pos + 1]), ind2, i - 1, split)

I_arr_dup(mm, split) ==
    DupI([k \in 1..Len(mu_arr) |-> k - 1], Len(mu_arr) - 1, mm - 2, split)

\* np.linalg.lstsq(x, I_arr_dup) needs a 2-D x with one row per entry
LstsqOk(xx, dup) == Len(xx) > 0 /\ Rect(xx) /\ Len(xx) = Len(dup)

\* Fit.I: the interval by a right-sided search of the boundaries, then
\* sum(p * [func(mu) for func in F[i]]).  The product raises when the row
\* and p differ in length; otherwise only the active block of F[i]
\* contributes, and the value is that block's polynomial of p at mu
I(muB, Fl, fit, mu) ==
    LET i == searchsorted(muB, mu, "right") - 1
        j == IF i < 0 THEN i + Len(Fl) ELSE i
    IN  IF j < 0 \/ j >= Len(Fl) THEN [kind |-> "IndexError"]
        ELSE IF RowWidth(Fl[j + 1]) # fit.pLen THEN [kind |-> "ValueError"]
        ELSE [kind |-> "value", block |-> ActiveBlock(Fl[j + 1]), mu |-> mu]

(* Fit.check: the numbers.  Intensities are in 1/1000.  The coefficient   *)
(* vector p of a fit is held as <<c0, c1>>, the coefficients of 1 and x    *)
(* on every interval, those of x^2, x^3 and x^4 being 0.                   *)

\* number of steps in mu for monotonicity checks: the step of the grid, in
\* 1/1000 (0.001 in the source, coarser here)
mu_step == 250

\* np.arange
RECURSIVE arange(_, _, _)
arange(start, stop, step) ==
    IF start >= stop THEN <<>> ELSE <<start>> \o arange(start + step, stop, step)

\* array of mu values for which the fitted functions should be monotonic
mu_check_arr == arange(0, 1000, mu_step)

\* sum(p * [func(mu) for func in Fi]) where Fit.I returns
I_value(p, mu) == p[1] + (p[2] * mu) \div 1000

\* np.diff, np.argmin, np.argmax (the first index of the signed extremum,
\* counted from 0) and np.abs
np_diff(s) == [k \in 1..(Len(s) - 1) |-> s[k + 1] - s[k]]
argmin(s) ==
    (CHOOSE i \in 1..Len(s) : \A j \in 1..Len(s) : s[i] < s[j] \/ (s[i] = s[j] /\ i <= j)) - 1
argmax(s) ==
    (CHOOSE i \in 1..Len(s) : \A j \in 1..Len(s) : s[i] > s[j] \/ (s[i] = s[j] /\ i <= j)) - 1
abs(v) == IF v < 0 THEN -v ELSE v

\* v / I1 for I1 # 0, in 1/1000
rel(v, I1) == IF I1 < 0 THEN ((-v) * 1000) \div (-I1) ELSE (v * 1000) \div I1

\* x**d
RECURSIVE Pow(_, _)
Pow(b, d) == IF d = 0 THEN 1 ELSE b * Pow(b, d - 1)

\* the sum of dev[k] * (mu_arr[k] / 100)^d over the samples from k on
RECURSIVE Moment(_, _, _)
Moment(dev, d, k) ==
    IF k > Len(mu_arr) THEN 0
    ELSE dev[k] * Pow(mu_arr[k] \div 100, d) + Moment(dev, d, k + 1)

\* np.linalg.lstsq on one interval returns p for I_arr when the residual
\* x p - I_arr is orthogonal to the columns 1, x, ..., x^4 of x; the
\* residuals here are 0 off the samples that are multiples of 0.1
lstsq(p, I_arr) ==
    LET dev == [k \in 1..Len(mu_arr) |-> I_value(p, mu_arr[k]) - I_arr[k]]
    IN  /\ \A k \in 1..Len(mu_arr) : mu_arr[k] % 100 # 0 => dev[k] = 0
        /\ \A d \in 0..(n - 1) : Moment(dev, d, 1) = 0

\* the intensities p(mu_arr) - dev, dev given from the sample of index from on
Given(p, from, dev) ==
    [k \in 1..Len(mu_arr) |->
        I_value(p, mu_arr[k])
          - (IF k >= from /\ k < from + Len(dev) THEN dev[k - from + 1] ELSE 0)]

\* the intensity vectors given to Fit and the coefficients lstsq returns for
\* them on the partition [0, 1]
FitData ==
    { d \in { [p |-> <<1000, 0>>, I_arr |-> Given(<<1000, 0>>, 1, <<>>)],
              [p |-> <<0, 1000>>, I_arr |-> Given(<<0, 1000>>, 11, <<-1, 5, -10, 10, -5, 1>>)],
              [p |-> <<2000, -1000>>,
               I_arr |-> Given(<<2000, -1000>>, 10, <<1, -7, 20, -30, 25, -11, 2>>)],
              [p |-> <<1000, -1000>>,
               I_arr |-> Given(<<1000, -1000>>, 11, <<-1, 5, -10, 10, -5, 1>>)],
              [p |-> <<-1000, 2000>>,
               I_arr |-> Given(<<-1000, 2000>>, 10, <<-1, 7, -20, 30, -25, 11, -2>>)],
              [p |-> <<2000, 0>>,
               I_arr |-> Given(<<2000, 0>>, 10, <<2, -14, 40, -60, 50, -22, 4>>)] } :
        lstsq(d.p, d.I_arr) }

\* a Fit built where its numbers are not looked at
NoData == [p |-> <<0, 0>>, I_arr |-> [k \in 1..Len(mu_arr) |-> 0]]

\* vI(mus): Fit.I at each entry
vI(muB, Fl, fit, mus) == [k \in 1..Len(mus) |-> I(muB, Fl, fit, mus[k])]
Raises(rs) == \E k \in 1..Len(rs) : rs[k].kind # "value"

\* the test that guards the assignment of Fit.I0_min, on the value cur read
\* from the record, and the value assigned
I0_min_guard(cur, I0, I1) ==
    IF I0 = 0 THEN cur >= 0
    ELSE IF I1 # 0 THEN rel(I0, I1) < cur
    ELSE FALSE
I0_min_value(I0, I1) == IF I0 = 0 THEN 0 ELSE rel(I0, I1)

\* the same for Fit.min_step
min_step_guard(cur, ms, I1) ==
    IF ms = 0 THEN cur >= 0
    ELSE IF I1 # 0 THEN rel(ms, I1) < cur
    ELSE FALSE
min_step_value(ms, I1) == IF ms = 0 THEN 0 ELSE rel(ms, I1)

\* the same for Fit.max_dev
md_rel(md, I1) == IF md = 0 THEN 0 ELSE rel(md, I1)
\* an assignment of Fit.max_dev that no test guards
max_dev_always(cur, md, I1) == TRUE
max_dev_guard(cur, md, I1) ==
    IF I1 = 0 /\ md # 0 THEN TRUE
    ELSE md_rel(md, I1) > cur
max_dev_value(md, I1) == IF I1 = 0 /\ md # 0 THEN inf ELSE md_rel(md, I1)

\* the one element of a set of one element
Only(S) == CHOOSE v \in S : TRUE

\* the locals of Fit.check for a fit: where Fit.I raises, the line it raises
\* at; the intensities, the steps and the deviations otherwise
check_locals(muB, Fl, fit) ==
    Only({ [line |-> IF Raises(vI(muB, Fl, fit, <<0>>)) THEN 227
                     ELSE IF Raises(vI(muB, Fl, fit, mu_check_arr)) THEN 237
                     ELSE IF Raises(vI(muB, Fl, fit, mu_arr)) THEN 249 ELSE 0,
            I1 |-> fit.I_arr[Len(fit.I_arr)],
            I0 |-> I_value(fit.p, 0),
            ms |-> step[argmin(step) + 1],
            ms_mu |-> mu_check_arr[argmin(step) + 1],
            diff |-> dev,
            md |-> abs(dev[argmax(dev) + 1]),
            md_mu |-> mu_arr[argmax(dev) + 1]] :
           step \in {np_diff([k \in 1..Len(mu_check_arr) |->
                                 I_value(fit.p, mu_check_arr[k])])},
           dev \in {[k \in 1..Len(mu_arr) |-> I_value(fit.p, mu_arr[k]) - fit.I_arr[k]]} })

\* Fit.check run without interruption by the object of index who in fits, on
\* the records rec: the records it leaves, and the line it raises at
check(rec, muB, Fl, fit, who) ==
    Only({ [I0_min |->
                IF c.line # 227 /\ I0_min_guard(rec.I0_min.v, c.I0, c.I1)
                THEN [v |-> I0_min_value(c.I0, c.I1), wl |-> fit.wl, who |-> who]
                ELSE rec.I0_min,
            min_step |->
                IF c.line \notin {227, 237} /\ min_step_guard(rec.min_step.v, c.ms, c.I1)
                THEN [v |-> min_step_value(c.ms, c.I1), wl |-> fit.wl, mu |-> c.ms_mu,
                      who |-> who]
                ELSE rec.min_step,
            max_dev |->
                IF c.line = 0 /\ max_dev_guard(rec.max_dev.v, c.md, c.I1)
                THEN [v |-> max_dev_value(c.md, c.I1), wl |-> fit.wl, mu |-> c.md_mu,
                      who |-> who]
                ELSE rec.max_dev,
            line |-> c.line] :
           c \in {check_locals(muB, Fl, fit)} })

\* the class records as one value
Records == [I0_min |-> I0_min, min_step |-> min_step, max_dev |-> max_dev]

\* Fit.__init__ for intensities and coefficients d: the duplication, the
\* least squares fit and, with ch, the check; where any of them raises the
\* caller gets no object
Fit_init_ch(wl, d, ch) ==
    /\ Len(fits) < MaxFits
    /\ \E dd \in {I_arr_dup(m, mu_arr_split)} :
           IF dd.err # "none" THEN /\ raised' = dd.err
                                   /\ UNCHANGED <<fits, I_at_init, recVars>>
           ELSE IF ~LstsqOk(x, dd.dup) THEN /\ raised' = "LinAlgError"
                                            /\ UNCHANGED <<fits, I_at_init, recVars>>
           ELSE \E fit \in {[wl |-> wl,
                              pLen |-> RowWidth(x[1].Fi),
                              dup |-> dd.dup,
                              xmu |-> [k \in 1..Len(x) |-> x[k].mu],
                              accepted |-> accepted,
                              p |-> d.p, I_arr |-> d.I_arr, checked |-> ch]} :
                \E c \in {IF ch THEN check(Records, muB_arr, F, fit, Len(fits) + 1)
                           ELSE [line |-> 0]} :
                    /\ IF ch
                       THEN /\ I0_min' = c.I0_min
                            /\ min_step' = c.min_step
                            /\ max_dev' = c.max_dev
                       ELSE UNCHANGED recVars
                    /\ IF ch /\ c.line # 0
                       THEN /\ raised' = "check"
                            /\ UNCHANGED <<fits, I_at_init>>
                       ELSE /\ fits' = Append(fits, fit)
                            /\ I_at_init' = Append(I_at_init,
                                                [mu \in EvalPoints |-> I(muB_arr, F, fit, mu)])
                            /\ raised' = "none"
    /\ lastOp' = "Fit"
    /\ UNCHANGED <<muB_arr, m, mu_arr_split, F, x, lastB, calls, accepted,
                   ig, surf, star, z1in, corr, threads>>

\* Fit.__init__ with ch false
Fit_init(wl) == Fit_init_ch(wl, NoData, FALSE)

\* Fit.check called on the object of index k in fits
Fit_check(k) ==
    /\ k \in 1..Len(fits)
    /\ \E c \in {check(Records, muB_arr, F, fits[k], k)} :
           /\ I0_min' = c.I0_min
           /\ min_step' = c.min_step
           /\ max_dev' = c.max_dev
           /\ raised' = IF c.line # 0 THEN "check" ELSE "none"
           /\ fits' = [fits EXCEPT ![k].checked = @ \/ c.line = 0]
    /\ lastOp' = "check"
    /\ UNCHANGED <<muB_arr, m, mu_arr_split, F, x, lastB, calls, accepted, I_at_init,
                   ig, surf, star, z1in, corr, threads>>

\* Two threads enter Fit.check, one on the object of index k1 and one on
\* that of index k2; rec0 keeps the records they find
check_start(k1, k2) ==
    /\ threads.pc = "idle"
    /\ k1 \in 1..Len(fits) /\ k2 \in 1..Len(fits) /\ k1 < k2
    /\ threads' = [pc |-> "running", rec0 |-> Records,
                   t |-> <<[fit |-> k1, at |-> "I0_test", go |-> FALSE],
                           [fit |-> k2, at |-> "I0_test", go |-> FALSE]>>]
    /\ lastOp' = "check"
    /\ UNCHANGED <<muB_arr, m, mu_arr_split, F, x, fits, raised, lastB, calls, accepted,
                   I_at_init, ig, surf, star, z1in, corr, recVars>>

\* One step of thread i inside Fit.check.  A test reads the record and
\* compares; the assignment that it guards is a later step, and the other
\* thread may run between the two.  The list that is bound is built from the
\* thread's own locals.
check_step(i) ==
    /\ threads.pc = "running"
    /\ i \in 1..Len(threads.t)
    /\ \E c \in {check_locals(muB_arr, F, fits[threads.t[i].fit])} :
       LET th == threads.t[i]
           fit == fits[th.fit]
           to(at, go) == [threads EXCEPT !.t[i].at = at, !.t[i].go = go]
       IN  CASE th.at = "I0_test" ->
                  /\ threads' = IF c.line = 227 THEN to("raised", FALSE)
                                ELSE to("I0_bind", I0_min_guard(I0_min.v, c.I0, c.I1))
                  /\ UNCHANGED recVars
             [] th.at = "I0_bind" ->
                  /\ I0_min' = IF th.go
                               THEN [v |-> I0_min_value(c.I0, c.I1), wl |-> fit.wl,
                                     who |-> th.fit]
                               ELSE I0_min
                  /\ threads' = to("ms_test", FALSE)
                  /\ UNCHANGED <<min_step, max_dev>>
             [] th.at = "ms_test" ->
                  /\ threads' = IF c.line = 237 THEN to("raised", FALSE)
                                ELSE to("ms_bind", min_step_guard(min_step.v, c.ms, c.I1))
                  /\ UNCHANGED recVars
             [] th.at = "ms_bind" ->
                  /\ min_step' = IF th.go
                                 THEN [v |-> min_step_value(c.ms, c.I1), wl |-> fit.wl,
                                       mu |-> c.ms_mu, who |-> th.fit]
                                 ELSE min_step
                  /\ threads' = to("md_test", FALSE)
                  /\ UNCHANGED <<I0_min, max_dev>>
             [] th.at = "md_test" ->
                  /\ threads' = IF c.line = 249 THEN to("raised", FALSE)
                                ELSE to("md_bind", max_dev_guard(max_dev.v, c.md, c.I1))
                  /\ UNCHANGED recVars
             [] th.at = "md_bind" ->
                  /\ max_dev' = IF th.go
                                THEN [v |-> max_dev_value(c.md, c.I1), wl |-> fit.wl,
                                      mu |-> c.md_mu, who |-> th.fit]
                                ELSE max_dev
                  /\ threads' = to("done", FALSE)
                  /\ UNCHANGED <<I0_min, min_step>>
             [] th.at \in {"done", "raised"} -> FALSE
    /\ UNCHANGED <<fitVars, ig, surf, star, z1in, corr>>

-----------------------------------------------------------------------------
(* The Fit class on its own *)

InitFit ==
    /\ muB_arr = <<>>
    /\ m = 0
    /\ mu_arr_split = <<>>
    /\ F = <<>>
    /\ x = <<>>
    /\ fits = <<>>
    /\ raised = "none"
    /\ lastB = <<>>
    /\ calls = 0
    /\ lastOp = "none"
    /\ I_at_init = <<>>
    /\ accepted = FALSE

InitRest ==
    /\ ig = [pc |-> "idle"]
    /\ surf = [state |-> "none"]
    /\ star = [pc |-> "idle"]
    /\ z1in = [pc |-> "idle"]
    /\ corr = [pc |-> "idle"]
    /\ I0_min = [v |-> inf, wl |-> -1, who |-> 0]
    /\ min_step = [v |-> inf, wl |-> -1, mu |-> -1, who |-> 0]
    /\ max_dev = [v |-> 0, wl |-> -1, mu |-> -1, who |-> 0]
    /\ threads = [pc |-> "idle"]

Init == InitFit /\ InitRest

Next ==
    \/ \E b \in BoundLists : set_muB(b)
    \/ \E wl \in Wavelengths : Fit_init(wl)

Spec == Init /\ [][Next]_vars

\* The Fit class with its checks, on the partition [0, 1]
CheckBounds == { <<>> }

\* the intensity vectors that are fitted, each with the wavelength it is at
Spectra == { sp \in Wavelengths \X FitData : (sp[1] = 1) <=> (sp[2].p[2] = 0) }

NextCheck ==
    \/ \E b \in CheckBounds : set_muB(b)
    \/ \E sp \in Spectra : \E ch \in BOOLEAN : Fit_init_ch(sp[1], sp[2], ch)
    \/ \E k \in 1..MaxFits : Fit_check(k)

SpecCheck == Init /\ [][NextCheck]_vars

\* Two checks side by side, after constructions and checks that ran alone
NextConcurrent ==
    \/ \E b \in CheckBounds : set_muB(b)
    \/ \E sp \in Spectra : \E ch \in BOOLEAN : Fit_init_ch(sp[1], sp[2], ch)
    \/ \E k1, k2 \in 1..MaxFits : check_start(k1, k2)
    \/ \E i \in 1..2 : check_step(i)

SpecConcurrent == Init /\ [][NextConcurrent]_vars

-----------------------------------------------------------------------------
(* Fit.integrate *)

\* the values of a and b in the batches passed to Fit.integrate, in 1/1000
AVals == {0, 200, 400}
BVals == {300, 500}

\* s[i] with Python's negative indices
PyIndexOk(s, i) == -Len(s) <= i /\ i < Len(s)
PyIndex(s, i) == s[(IF i < 0 THEN i + Len(s) ELSE i) + 1]

\* phi(mu) = arccos((mu - b) / a) for a > 0: represented by mu itself, and
\* nan when (mu - b) / a is outside [-1, 1]
phi(mu, a, b) == [mu |-> mu, nan |-> ~(b - a <= mu /\ mu <= a + b)]

\* the outcome of a call: the exception raised, if any, and the line of
\* fit.py it was raised at or the call returned from
Outcome(err, line, res, it, i) ==
    [err |-> err, line |-> line, res |-> res, azero |-> <<>>, iters |-> it, i |-> i]

\* The while loop for one pair (a, b) with a # 0; i is a valid index of muB.
\* mu_int = muB_arr[i] has one entry at the head of every iteration, so the
\* loop condition mu_int.size > 0 never fails.  Where the mask is true the
\* block of interval i is credited intgrt(phi_int) - intgrt(ph), written
\* [from |-> ph, to |-> phi_int]; where it is false mu_int and phi_int become
\* empty and the in-place addition of a (5, 0) array into result[i, :, :] of
\* shape (1, 5, 1) raises.
RECURSIVE WhileLoop(_, _, _, _, _, _, _, _, _)
WhileLoop(muB, mm, a, b, mu0, i, ph, res, it) ==
    LET mu_int == PyIndex(muB, i)
    IN  IF ~(mu_int > mu0) THEN Outcome("ValueError", 190, res, it + 1, i)
        ELSE IF ~PyIndexOk(res[1], i) THEN Outcome("IndexError", 190, res, it + 1, i)
        ELSE LET phi_int == phi(mu_int, a, b)
                 blk == (IF i < 0 THEN i + mm ELSE i) + 1
                 res2 == [res EXCEPT ![1][blk] = Append(@, [from |-> ph, to |-> phi_int])]
             IN  IF ~PyIndexOk(muB, i - 1)
                 THEN Outcome("IndexError", 197, res2, it + 1, i - 1)
                 ELSE WhileLoop(muB, mm, a, b, mu0, i - 1, phi_int, res2, it + 1)

\* Fit.integrate(belowZ1, a, b) on a batch of N pairs, of which K have
\* a # 0.  An empty batch passes every line and returns an empty array.  A boolean-mask assignment takes a value array of length 1 or of
\* the length of the mask's true entries, so lines 171 and 174, which assign
\* arrays of length K, both pass only for K <= 1.  res holds, per kept pair
\* and per interval block, the credits made so far.
integrate(muB, mm, belowZ1, a, b) ==
    LET N == Len(a)
        keep == SelectSeq([k \in 1..N |-> k], LAMBDA k : a[k] # 0)
        K == Len(keep)
        a1 == [k \in 1..K |-> a[keep[k]]]
        b1 == [k \in 1..K |-> b[keep[k]]]
        bl1 == [k \in 1..K |-> belowZ1[keep[k]]]
        nNot == Cardinality({k \in 1..K : ~bl1[k]})
        nBel == Cardinality({k \in 1..K : bl1[k]})
        zero == [c \in 1..K |-> [j \in 1..mm |-> <<>>]]
    IN  IF N = 0 THEN Outcome("none", 207, zero, 0, 0)
        ELSE IF K # 1 /\ K # nNot THEN Outcome("ValueError", 171, zero, 0, 0)
        ELSE IF K # 1 /\ K # nBel THEN Outcome("ValueError", 174, zero, 0, 0)
        ELSE IF K = 1
        THEN LET mu1 == a1[1] + b1[1]
                 i0 == searchsorted(muB, mu1, "right") - 1
                 mu0 == IF bl1[1] THEN 0 ELSE b1[1] - a1[1]
             IN  IF ~PyIndexOk(muB, i0) THEN Outcome("IndexError", 176, zero, 0, i0)
                 ELSE WhileLoop(muB, mm, a1[1], b1[1], mu0, i0, phi(mu1, a1[1], b1[1]), zero, 0)
        \* K = 0: the loop is skipped and line 199 adds nothing; at line 205
        \* the boolean index azero has N entries and the last axis of result 0
        ELSE Outcome("IndexError", 205, zero, 0, 0)

Fit_integrate(belowZ1, a, b) ==
    /\ ig' = [pc |-> "done", belowZ1 |-> belowZ1, a |-> a, b |-> b,
              out |-> integrate(muB_arr, m, belowZ1, a, b)]
    /\ UNCHANGED <<fitVars, surf, star, z1in, corr, checkVars>>

Batches(N) == [1..N -> BOOLEAN] \X [1..N -> AVals] \X [1..N -> BVals]

NextIntegrate ==
    \/ \E b \in BoundLists : set_muB(b)
    \/ \E N \in 1..MaxBatch : \E t \in Batches(N) : Fit_integrate(t[1], t[2], t[3])

SpecIntegrate == Init /\ [][NextIntegrate]_vars

-----------------------------------------------------------------------------
(* Surface: lengths, omega, w, f, sines and roots in 1/1000 *)

\* set_inclination calls on one Surface
MaxIncl == 3

\* the rotation parameters a Surface is built with
OmegaVals == {0, 500, 900}

\* the inclinations set, named by their size in degrees (the code takes
\* radians), and math.sin and math.cos of them
InclVals == {0, 20, 45, 70}
\* math.sin and math.cos of an inclination given in degrees, in 1/1000.
\* math.cos(math.pi / 2) is 6.1e-17, which is 0 in 1/1000 and not 0 in the code
sin(incl) ==
    CASE incl = 0 -> 0 [] incl = 10 -> 174 [] incl = 20 -> 342 [] incl = 30 -> 500
      [] incl = 40 -> 643 [] incl = 45 -> 707 [] incl = 50 -> 766 [] incl = 60 -> 866
      [] incl = 70 -> 940 [] incl = 80 -> 985 [] incl = 90 -> 1000
cos(incl) ==
    CASE incl = 0 -> 1000 [] incl = 10 -> 985 [] incl = 20 -> 940 [] incl = 30 -> 866
      [] incl = 40 -> 766 [] incl = 45 -> 707 [] incl = 50 -> 643 [] incl = 60 -> 500
      [] incl = 70 -> 342 [] incl = 80 -> 174 [] incl = 90 -> 0

\* Surface.__init__: the fields set at construction; inclination, sini, cosi
\* and z1 do not exist until set_inclination has been called (state "built")
Surface(omega) ==
    [state |-> "built", raised |-> "none", omega |-> omega,
     w |-> IF omega # 0 THEN 1000 + 2000000000 \div (omega * omega) ELSE inf,
     f |-> 1000 + (omega * omega) \div 2000,
     inclination |-> 0, sini |-> 0, cosi |-> 0, z1 |-> 0,
     hist |-> <<>>, built |-> omega]

\* Surface.Z
Z(f, u) == (u * f) \div 1000

\* math.sqrt of u2 / 10^6, in 1/1000: the largest k in lo..hi with k^2 <= u2
RECURSIVE sqrt_in(_, _, _)
sqrt_in(u2, lo, hi) ==
    IF lo = hi THEN lo
    ELSE LET mid == (lo + hi + 1) \div 2
         IN  IF mid * mid <= u2 THEN sqrt_in(u2, mid, hi) ELSE sqrt_in(u2, lo, mid - 1)
sqrt(u2) == sqrt_in(u2, 0, 1000)

\* np.roots(p) for the polynomial of w and (sini / cosi)^2: the 7 roots,
\* listed by decreasing modulus.  For these w and inclinations one root only
\* passes the condition of Z1, so the order np.roots returns them in does
\* not change what Z1 takes.
np_roots(w, sini, cosi) ==
    CASE w = 9000 /\ sini = 342 ->
            <<[re |-> 12028, im |-> -1980], [re |-> 12028, im |-> 1980],
              [re |-> 9275, im |-> -3283], [re |-> 9275, im |-> 3283],
              [re |-> 5243, im |-> 943], [re |-> 5243, im |-> -943],
              [re |-> 908, im |-> 0]>>
      [] w = 9000 /\ sini = 707 ->
            <<[re |-> 12299, im |-> -3136], [re |-> 12299, im |-> 3136],
              [re |-> 10047, im |-> 4251], [re |-> 10047, im |-> -4251],
              [re |-> 4377, im |-> -786], [re |-> 4377, im |-> 786],
              [re |-> 554, im |-> 0]>>
      [] w = 9000 /\ sini = 940 ->
            <<[re |-> 12004, im |-> 3956], [re |-> 12004, im |-> -3956],
              [re |-> 10899, im |-> -4512], [re |-> 10899, im |-> 4512],
              [re |-> 4029, im |-> -355], [re |-> 4029, im |-> 355],
              [re |-> 135, im |-> 0]>>
      [] w = 3469 /\ sini = 342 ->
            <<[re |-> 4861, im |-> -894], [re |-> 4861, im |-> 894],
              [re |-> 3581, im |-> -1489], [re |-> 3581, im |-> 1489],
              [re |-> 1527, im |-> 0], [re |-> 1432, im |-> 0],
              [re |-> 970, im |-> 0]>>
      [] w = 3469 /\ sini = 707 ->
            <<[re |-> 4982, im |-> 1428], [re |-> 4982, im |-> -1428],
              [re |-> 3938, im |-> 1940], [re |-> 3938, im |-> -1940],
              [re |-> 1187, im |-> -105], [re |-> 1187, im |-> 105],
              [re |-> 601, im |-> 0]>>
      [] w = 3469 /\ sini = 940 ->
            <<[re |-> 4844, im |-> -1805], [re |-> 4844, im |-> 1805],
              [re |-> 4333, im |-> -2061], [re |-> 4333, im |-> 2061],
              [re |-> 1169, im |-> -34], [re |-> 1169, im |-> 34],
              [re |-> 123, im |-> 0]>>

\* x <= y on complex numbers as numpy orders them: by real part, then by
\* imaginary part
cle(c, d) == c.re < d.re \/ (c.re = d.re /\ c.im <= d.im)

\* lines 151 - 156 of Z1: the first root that passes the condition, its real
\* part s, u and Z(u).  The radicand of u is (1 - s) q / (s - w)^2 with
\* q = s + s^2 + (w - 1)^2 - 2 s w; w is above 1 and s at most 1, so the
\* radicand is negative, and math.sqrt raises, where s < 1 and q < 0.
Z1_select(rts, w, f) ==
    LET condition(r) == cle([re |-> 0, im |-> 0], r) /\ cle(r, [re |-> 1000, im |-> 0])
        extract == SelectSeq(rts, condition)
    IN  IF extract = <<>> THEN [kind |-> "IndexError", s |-> 0, im |-> 0, z1 |-> 0]
        ELSE LET s == extract[1].re
                 q == 1000 * s + s * s + (w - 1000) * (w - 1000) - 2 * s * w
                 u2 == (1000 - s) * (q \div (((s - w) * (s - w)) \div 1000))
             IN  IF s < 1000 /\ q < 0
                 THEN [kind |-> "ValueError", s |-> s, im |-> extract[1].im, z1 |-> 0]
                 ELSE [kind |-> "value", s |-> s, im |-> extract[1].im,
                       z1 |-> Z(f, sqrt(u2))]

\* The branch Surface.Z1 takes: "sini" returns sini, "zero" returns 0, "roots"
\* builds the polynomial and calls np.roots
Z1_branch(w, sini) ==
    IF w = inf THEN "sini"
    ELSE IF sini = 0 THEN "zero"
    ELSE "roots"

\* Surface.Z1 on the fields of surface S
Z1(S) ==
    CASE Z1_branch(S.w, S.sini) = "sini" -> [kind |-> "value", s |-> 0, im |-> 0, z1 |-> S.sini]
      [] Z1_branch(S.w, S.sini) = "zero" -> [kind |-> "value", s |-> 0, im |-> 0, z1 |-> 0]
      [] Z1_branch(S.w, S.sini) = "roots" -> Z1_select(np_roots(S.w, S.sini, S.cosi), S.w, S.f)

\* a set_inclination that keeps the bound it has cached
set_inclination_cached(S, inclination) ==
    [S EXCEPT !.inclination = inclination, !.sini = sin(inclination),
              !.cosi = cos(inclination),
              !.z1 = IF S.state = "ready" THEN S.z1 ELSE Z1(S).z1,
              !.state = "ready", !.raised = "none",
              !.hist = Append(S.hist, inclination)]

\* Surface.set_inclination: the three assignments, then z1 = Z1(); where Z1
\* raises z1 keeps what it held
set_inclination(S, inclination) ==
    LET S1 == [S EXCEPT !.inclination = inclination, !.sini = sin(inclination),
                        !.cosi = cos(inclination),
                        !.hist = Append(S.hist, inclination)]
        r == Z1(S1)
    IN  IF r.kind = "value"
        THEN [S1 EXCEPT !.z1 = r.z1, !.state = "ready", !.raised = "none"]
        ELSE [S1 EXCEPT !.state = "failed", !.raised = r.kind]

Surface_init(omega) ==
    /\ surf' = Surface(omega)
    /\ UNCHANGED <<fitVars, ig, star, z1in, corr, checkVars>>

Surface_set_inclination(inclination) ==
    /\ surf.state # "none"
    /\ Len(surf.hist) < MaxIncl
    /\ surf' = set_inclination(surf, inclination)
    /\ UNCHANGED <<fitVars, ig, star, z1in, corr, checkVars>>

NextSurface ==
    \/ \E omega \in OmegaVals : Surface_init(omega)
    \/ \E inclination \in InclVals : Surface_set_inclination(inclination)

SpecSurface == Init /\ [][NextSurface]_vars

-----------------------------------------------------------------------------
(* The root selection of Z1 on its own *)

\* the values of w the selection is applied with: omega = 2, 1, 1/2
WVals == {1500, 3000, 9000}

\* roots handed to the selection, and how many
RootVals == [re : {-200, 100, 500, 1200}, im : {-300, 0, 300}]
MaxRoots == 2

RootVectors == UNION {[1..k -> RootVals] : k \in 1..MaxRoots}

Z1_roots(rts, w) ==
    /\ z1in' = [pc |-> "done", rts |-> rts, w |-> w,
                out |-> Z1_select(rts, w, 1000 + 1000000 \div (w - 1000))]
    /\ UNCHANGED <<fitVars, ig, surf, star, corr, checkVars>>

NextZ1 == \E rts \in RootVectors : \E w \in WVals : Z1_roots(rts, w)

SpecZ1 == Init /\ [][NextZ1]_vars

(***************************************************************************)
(* The branch of Surface.Z1 over rotation and inclination                  *)
(***************************************************************************)
BranchOmegas == {100 * k : k \in 0..9}
BranchIncls == {10 * k : k \in 0..9}

\* Surface(omega).set_inclination(inclination), up to the branch Z1 enters
Z1_enter(omega, inclination) ==
    LET S == Surface(omega)
        sini == sin(inclination)
    IN  /\ z1in' = [pc |-> "branch", omega |-> omega, inclination |-> inclination,
                    w |-> S.w, sini |-> sini, branch |-> Z1_branch(S.w, sini)]
        /\ UNCHANGED <<fitVars, ig, surf, star, corr, checkVars>>

NextBranch == \E omega \in BranchOmegas : \E inclination \in BranchIncls :
                  Z1_enter(omega, inclination)

SpecBranch == Init /\ [][NextBranch]_vars

-----------------------------------------------------------------------------
(* Star.integrate *)

\* The surface map is built by star.map, which is not part of the sources at
\* hand; the height grids it supplies are ascending with a fixed step.
ZGrids ==
    { [z_arr |-> <<-750, -250, 250, 750>>, z_step |-> 500],
      [z_arr |-> <<-500, 0, 500>>, z_step |-> 500],
      [z_arr |-> <<-750, -500, -250, 0, 250, 500, 750>>, z_step |-> 250] }

\* the rotation parameters and the boundary lists (ld.bounds) of a Star
StarOmegas == {0, 500}
StarBounds == { <<>>, <<300>> }

\* 1 / sqrt(1 + drz^2) and drz / sqrt(1 + drz^2) for drz = f * Drz(z), at
\* the heights of the grids
inv_sqt(omega, z) ==
    LET h == IF z < 0 THEN -z ELSE z
    IN  CASE omega = 0 /\ h = 0 -> 1000 [] omega = 0 /\ h = 250 -> 968
          [] omega = 0 /\ h = 500 -> 866 [] omega = 0 /\ h = 750 -> 661
          [] omega = 500 /\ h = 0 -> 1000 [] omega = 500 /\ h = 250 -> 957
          [] omega = 500 /\ h = 500 -> 831 [] omega = 500 /\ h = 750 -> 615
drz_sqt(omega, z) ==
    LET h == IF z < 0 THEN -z ELSE z
        d == CASE omega = 0 /\ h = 0 -> 0 [] omega = 0 /\ h = 250 -> 250
               [] omega = 0 /\ h = 500 -> 500 [] omega = 0 /\ h = 750 -> 750
               [] omega = 500 /\ h = 0 -> 0 [] omega = 500 /\ h = 250 -> 291
               [] omega = 500 /\ h = 500 -> 556 [] omega = 500 /\ h = 750 -> 788
    IN  IF z < 0 THEN d ELSE -d

\* Surface.ab
ab(S, z) ==
    [a |-> (S.sini * inv_sqt(S.omega, z)) \div 1000,
     b |-> -((S.cosi * drz_sqt(S.omega, z)) \div 1000)]

\* the bound read before the inclination is set
z1_stale(before, after) == before.z1

\* line 45: the bound is read from the surface after set_inclination
z1_read(before, after) == after.z1

\* lines 48 - 49: the samples strictly above -z1
retained(z_arr, z1) == SelectSeq(z_arr, LAMBDA v : v > -z1)

\* lines 69 - 78 on the integrand f, which has one entry per retained sample
\* and is written as the heights of its entries
Corr(z_arr, z_step, z1, f) ==
    LET i == searchsorted(z_arr, -z1, "left")
    IN  IF i >= Len(z_arr)
        THEN [err |-> "IndexError", line |-> 71, kind |-> "none", delta |-> 0, f |-> f]
        ELSE LET delta == z_arr[i + 1] + z1
             IN  IF f = <<>>
                 THEN [err |-> "IndexError", line |-> 75, kind |-> "none",
                       delta |-> delta, f |-> f]
                 ELSE IF 2 * delta >= z_step
                 THEN [err |-> "none", line |-> 75, kind |-> "quadratic",
                       delta |-> delta, f |-> f]
                 ELSE [err |-> "none", line |-> 77, kind |-> "linear",
                       delta |-> delta, f |-> Tail(f)]

\* Star.__init__: builds the surface and keeps the map and the boundaries
Star_init(omega, grid, bounds) ==
    /\ surf' = Surface(omega)
    /\ star' = [pc |-> "built", z_arr |-> grid.z_arr, z_step |-> grid.z_step,
                bounds |-> bounds]
    /\ UNCHANGED <<fitVars, ig, z1in, corr, checkVars>>

\* Star.integrate.  Fit.integrate at line 57 returns only for an empty batch
\* and raises otherwise, so that the lines after it run only where no sample
\* is retained.
Star_integrate(inclination) ==
    /\ star.pc # "idle"
    /\ Len(surf.hist) < MaxIncl
    /\ LET S1 == set_inclination(surf, inclination)
           z1 == z1_read(surf, S1)
           z == retained(star.z_arr, z1)
           abz == [k \in 1..Len(z) |-> ab(S1, z[k])]
           a == [k \in 1..Len(z) |-> abz[k].a]
           b == [k \in 1..Len(z) |-> abz[k].b]
           belowZ1 == [k \in 1..Len(z) |-> z[k] < z1]
           called == [pc |-> "called", z_arr |-> star.z_arr, z_step |-> star.z_step,
                      bounds |-> star.bounds, inclination |-> inclination,
                      z1 |-> z1, z |-> z, a |-> a, b |-> b, belowZ1 |-> belowZ1,
                      err |-> "none", line |-> 0]
       IN  /\ surf' = S1
           /\ IF S1.state = "failed"
              THEN /\ star' = [pc |-> "called", z_arr |-> star.z_arr,
                               z_step |-> star.z_step, bounds |-> star.bounds,
                               inclination |-> inclination, z1 |-> 0, z |-> <<>>,
                               a |-> <<>>, b |-> <<>>, belowZ1 |-> <<>>,
                               err |-> S1.raised, line |-> 43]
                   /\ UNCHANGED <<fitVars, ig>>
              ELSE /\ set_muB_cls(star.bounds)
                   /\ IF raised' # "none"
                      THEN /\ ig' = [pc |-> "idle"]
                           /\ star' = [called EXCEPT !.err = raised', !.line = 56]
                      ELSE LET out == integrate(muB_arr', m', belowZ1, a, b)
                           IN  /\ ig' = [pc |-> "done", belowZ1 |-> belowZ1,
                                         a |-> a, b |-> b, out |-> out]
                               /\ IF out.err # "none"
                                  THEN star' = [called EXCEPT !.err = out.err, !.line = 57]
                                  ELSE LET c == Corr(star.z_arr, star.z_step, z1, z)
                                       IN  star' = [called EXCEPT !.err = c.err,
                                                                  !.line = c.line]
    /\ UNCHANGED <<z1in, corr, checkVars>>

NextStar ==
    \/ \E omega \in StarOmegas : \E grid \in ZGrids : \E bounds \in StarBounds :
            Star_init(omega, grid, bounds)
    \/ \E inclination \in InclVals : Star_integrate(inclination)

SpecStar == Init /\ [][NextStar]_vars

-----------------------------------------------------------------------------
(* The correction of lines 67 - 78 on its own *)

\* the bounds z1 the correction is computed for
Z1Vals == {25 * k : k \in 0..40}

Correction(grid, z1) ==
    /\ corr' = [pc |-> "done", z_arr |-> grid.z_arr, z_step |-> grid.z_step,
                z1 |-> z1, f |-> retained(grid.z_arr, z1),
                out |-> Corr(grid.z_arr, grid.z_step, z1, retained(grid.z_arr, z1))]
    /\ UNCHANGED <<fitVars, ig, surf, star, z1in, checkVars>>

NextCorr == \E grid \in ZGrids : \E z1 \in Z1Vals : Correction(grid, z1)

SpecCorr == Init /\ [][NextCorr]_vars

-----------------------------------------------------------------------------
(* What the claims say about a boundary list and a partition *)

\* the number of reference samples in the interval [lo, hi), the last
\* interval also holding mu = 1
SamplesIn(lo, hi, last) ==
    Cardinality({k \in 1..Len(mu_arr) :
        lo <= mu_arr[k] /\ (mu_arr[k] < hi \/ (last /\ mu_arr[k] = hi))})

\* a boundary list configure must accept: strictly increasing, inside the
\* open interval (0, 1), at least 2 reference samples in every interval
ValidBounds(b) ==
    LET e == <<0>> \o b \o <<1000>>
    IN  /\ \A k \in 1..Len(b) : 0 < b[k] /\ b[k] < 1000
        /\ \A k \in 1..(Len(b) - 1) : b[k] < b[k + 1]
        /\ \A k \in 1..(Len(e) - 1) : SamplesIn(e[k], e[k + 1], k = Len(e) - 1) >= 2

\* the index i (0-based) of the interval [b_i, b_{i+1}) holding mu, the last
\* interval also holding mu = 1
IntervalOf(muB, mu) ==
    CHOOSE i \in 0..(Len(muB) - 1) :
        muB[i + 1] <= mu /\ (i = Len(muB) - 1 \/ mu < muB[i + 2])

-----------------------------------------------------------------------------
(* C1 - C4: the shared partition and evaluation *)

\* C1: after any sequence of Fit.set_muB calls the shared partition state is
\* the one for the last boundary list b: m = len(b) + 1, F has exactly m rows
\* each of width 5 m, and x has width 5 m and one row per (duplicated)
\* reference sample.  Stated for the lists configure must accept.
C1_PartitionIsLastConfigured ==
    (lastOp = "set_muB" /\ ValidBounds(lastB)) =>
        /\ m = Len(lastB) + 1
        /\ Len(F) = m
        /\ \A r \in 1..Len(F) : RowWidth(F[r]) = n * m
        /\ Len(x) = Len(mu_arr) + m - 1
        /\ \A k \in 1..Len(x) : RowWidth(x[k].Fi) = n * m

\* C2: Fit.set_muB rejects with an error every boundary list that is not
\* strictly increasing, has a boundary outside (0, 1) or leaves an interval
\* with fewer than 2 reference samples, and never stores such a list as the
\* partition.
C2_InvalidBoundsRejected ==
    (lastOp = "set_muB" /\ ~ValidBounds(lastB)) =>
        /\ raised # "none"
        /\ muB_arr # <<0>> \o lastB

\* C3: for every mu in [0, 1] and every configured partition, Fit.I selects
\* the interval i with b_i <= mu < b_{i+1} (the last one also holding mu = 1)
\* and its result depends only on the coefficients p[5i .. 5i+4]: it is the
\* polynomial of block i at mu.  Stated for a fit that was just constructed
\* under the partition in force.
C3_EvaluateUsesOwnInterval ==
    (lastOp = "Fit" /\ raised = "none" /\ ValidBounds(lastB)) =>
        \A mu \in EvalPoints :
            I(muB_arr, F, fits[Len(fits)], mu) =
                [kind |-> "value", block |-> IntervalOf(muB_arr, mu), mu |-> mu]

\* C4: a Fit is immutable after construction with respect to evaluation:
\* Fit.I(mu) returns, after any later Fit.set_muB calls and constructions of
\* other fits, what it returned when the fit was constructed.
C4_EvaluationImmutable ==
    \A k \in 1..Len(fits) : \A mu \in EvalPoints :
        I(muB_arr, F, fits[k], mu) = I_at_init[k][mu]

-----------------------------------------------------------------------------
(* C5 - C6: Fit.integrate *)

\* the partition in force was configured by a successful set_muB with a
\* valid boundary list
PartitionValid == calls > 0 /\ raised = "none" /\ ValidBounds(lastB)

\* what the interval blocks of a pair with a # 0 are to hold: every interval
\* from the one holding mu0 to the one holding a + b is credited once, from
\* phi at the top of its intersection with [mu0, a + b] to phi at the bottom
ExpectedBlocks(muB, a, b, below) ==
    LET mu0 == IF below THEN 0 ELSE b - a
        mu1 == a + b
        e == muB \o <<1000>>
        lo(j) == IF e[j] > mu0 THEN e[j] ELSE mu0
        hi(j) == IF e[j + 1] < mu1 THEN e[j + 1] ELSE mu1
    IN  [j \in 1..Len(muB) |->
            IF IntervalOf(muB, mu0) + 1 <= j /\ j <= IntervalOf(muB, mu1) + 1
            THEN <<[from |-> phi(hi(j), a, b), to |-> phi(lo(j), a, b)]>>
            ELSE <<>>]

\* C5: for every pair with a # 0 passed to Fit.integrate, with its mu range
\* [mu0, a + b] inside [0, 1], the call returns, every interval intersecting
\* [mu0, a + b] has been credited exactly once with its own phi sub-range,
\* the sub-ranges are contiguous from phi = 0 to phi(mu0), and every other
\* interval block is zero
C5_SubrangesCoverOnce ==
    (ig.pc = "done" /\ PartitionValid) =>
        LET keep == SelectSeq([k \in 1..Len(ig.a) |-> k], LAMBDA k : ig.a[k] # 0)
        IN  \A c \in 1..Len(keep) :
                LET a == ig.a[keep[c]]
                    b == ig.b[keep[c]]
                    below == ig.belowZ1[keep[c]]
                IN  ((IF below THEN 0 ELSE b - a) >= 0 /\ a + b <= 1000) =>
                        /\ ig.out.err = "none"
                        /\ ig.out.res[c] = ExpectedBlocks(muB_arr, a, b, below)

\* C6: for every pair with a = 0 and b in [0, 1] passed to Fit.integrate,
\* alone or batched, the call returns an array with one column per pair of
\* the batch, the column of that pair holding 2 pi f_j(b) in the block of
\* the interval containing b and zero in every other block
C6_ZeroAColumn ==
    (ig.pc = "done" /\ PartitionValid) =>
        \A k \in 1..Len(ig.a) :
            (ig.a[k] = 0 /\ 0 <= ig.b[k] /\ ig.b[k] <= 1000) =>
                /\ ig.out.err = "none"
                /\ ig.out.azero[k] = [block |-> IntervalOf(muB_arr, ig.b[k]) + 1, at |-> ig.b[k]]

-----------------------------------------------------------------------------
(* C7 - C8: the cached integration bound *)

-----------------------------------------------------------------------------
(* C9 - C10: Star.integrate *)

\* the surface of the star as constructed, with inclination set once
SurfaceAt(inclination) == set_inclination(Surface(surf.built), inclination)

C10_DeltaFromFirstRetained ==
    (corr.pc = "done" /\ corr.f # <<>>) =>
        /\ corr.out.err = "none"
        /\ corr.out.delta = corr.f[1] + corr.z1
        /\ 0 < corr.out.delta /\ corr.out.delta <= corr.z_step
        /\ (2 * corr.out.delta >= corr.z_step) =>
               (corr.out.kind = "quadratic" /\ corr.out.f = corr.f)
        /\ (2 * corr.out.delta < corr.z_step) =>
               (corr.out.kind = "linear" /\ corr.out.f = Tail(corr.f))

-----------------------------------------------------------------------------
(* C13 - C14: the rows of the design matrix and the duplicated intensities *)

\* C13: in the design matrix of a valid boundary list a reference sample has
\* two rows, in the blocks of an interval and of the next one, if and only if
\* it equals an interior boundary; every other sample has one row, in the
\* block of the interval that contains it
C13_TwoRowsIffOnBoundary ==
    (lastOp = "set_muB" /\ raised = "none" /\ ValidBounds(lastB)) =>
        \A k \in 1..Len(mu_arr) :
            LET mu == mu_arr[k]
                rows == {r \in 1..Len(x) : x[r].mu = mu}
                blocks == {ActiveBlock(x[r].Fi) : r \in rows}
                i == IntervalOf(muB_arr, mu)
            IN  IF \E j \in 2..Len(muB_arr) : muB_arr[j] = mu
                THEN Cardinality(rows) = 2 /\ blocks = {i - 1, i}
                ELSE Cardinality(rows) = 1 /\ blocks = {i}

\* C14: for every Fit constructed on a partition that Fit.set_muB accepted
\* (its last call returned), the duplicated intensity vector has one entry
\* per design-matrix row, and its k-th entry is the intensity of the
\* reference sample whose mu generated the k-th row
C14_DupAlignedWithRows ==
    \A k \in 1..Len(fits) :
        fits[k].accepted =>
            /\ Len(fits[k].dup) = Len(fits[k].xmu)
            /\ \A j \in 1..Len(fits[k].dup) :
                   mu_arr[fits[k].dup[j] + 1] = fits[k].xmu[j]

\* a fit on three intervals: 19 rows, the samples at both boundaries doubled
C14_Witness ==
    \E k \in 1..Len(fits) :
        /\ fits[k].accepted
        /\ Len(fits[k].dup) = Len(mu_arr) + 2
        /\ \E j \in 1..(Len(fits[k].dup) - 1) :
               fits[k].dup[j] = fits[k].dup[j + 1] /\ fits[k].xmu[j] = 500

-----------------------------------------------------------------------------
(* C15: the interval walk of Fit.integrate *)

\* C15: for every batch with a pair with a # 0, on a valid partition, the
\* while loop of Fit.integrate makes at most m iterations and the interval
\* index it reads muB_arr with is never below 0
C15_WalkStaysInPartition ==
    (ig.pc = "done" /\ PartitionValid /\ \E k \in 1..Len(ig.a) : ig.a[k] # 0) =>
        /\ ig.out.iters <= m
        /\ ig.out.i >= 0

(* C16: the branch of Surface.Z1 at inclination 0 and 90 degrees *)
\* C16: whenever the inclination is exactly 0 or exactly 90 degrees, for every
\* omega, Z1 returns a closed form and does not reach the polynomial and
\* np.roots
C16_ClosedFormAtZeroAndRightAngle ==
    (z1in.pc = "branch" /\ z1in.inclination \in {0, 90}) => z1in.branch # "roots"

(* C11: the deviation Fit.check records *)
\* the deviations fit(mu_k) - I_k of a fit at the reference samples, and the
\* largest of their absolute values
Deviations(fit) == [j \in 1..Len(mu_arr) |-> I_value(fit.p, mu_arr[j]) - fit.I_arr[j]]
LargestDeviation(fit) ==
    LET dev == Deviations(fit)
    IN  abs(dev[CHOOSE i \in 1..Len(dev) : \A j \in 1..Len(dev) : abs(dev[i]) >= abs(dev[j])])

\* C11: after Fit.check on a fit with I1 > 0 the recorded max_dev value is at
\* least the largest absolute deviation of the fit over the reference samples
\* divided by I1, whatever the sign of that deviation, and where this fit set
\* the record its mu tag is a sample where that largest deviation occurs
C11_MaxDevCoversLargestDeviation ==
    \A k \in 1..Len(fits) :
        LET fit == fits[k]
            I1 == fit.I_arr[Len(fit.I_arr)]
        IN  (fit.checked /\ I1 > 0) =>
                /\ max_dev.v >= rel(LargestDeviation(fit), I1)
                /\ max_dev.who = k =>
                       \E j \in 1..Len(mu_arr) :
                           /\ mu_arr[j] = max_dev.mu
                           /\ abs(Deviations(fit)[j]) = LargestDeviation(fit)

(* C17: the records over a sequence of constructions and checks *)
\* C17: over any sequence of constructions with ch and of Fit.check calls,
\* no step raises I0_min[0] or min_step[0] or lowers max_dev[0], and no step
\* changes the coefficient vector of a fit that exists
C17_RecordsOnlyGrowMoreExtreme ==
    [][/\ I0_min'.v <= I0_min.v
       /\ min_step'.v <= min_step.v
       /\ max_dev'.v >= max_dev.v
       /\ Len(fits') >= Len(fits)
       /\ \A k \in 1..Len(fits) : fits'[k].p = fits[k].p]_vars

\* two checked fits, the last operation a Fit.check call, where max_dev is
\* still the one bound by the first although the second has a deviation of
\* its own, and I0_min is the one bound by the second
C17_Witness ==
    /\ lastOp = "check"
    /\ raised = "none"
    /\ \E k, j \in 1..Len(fits) :
           /\ k # j
           /\ fits[k].checked /\ fits[j].checked
           /\ max_dev.who = k
           /\ I0_min.who = j
           /\ LET c == check_locals(muB_arr, F, fits[j])
              IN  /\ c.I1 # 0
                  /\ 0 < md_rel(c.md, c.I1)
                  /\ md_rel(c.md, c.I1) < max_dev.v

(* C12: two checks side by side *)
\* the records two checks leave when one runs after the other has returned:
\* the extrema over the records found and the two fits
OneAfterTheOther ==
    LET one == check(threads.rec0, muB_arr, F, fits[threads.t[1].fit], threads.t[1].fit)
    IN  check(one, muB_arr, F, fits[threads.t[2].fit], threads.t[2].fit)

\* C12: when two Fit objects have run check side by side, interleaved at the
\* reads, comparisons and assignments of the records, I0_min, min_step and
\* max_dev hold the extrema over both fits and the records found before, and
\* every record holds the value and the tags of one and the same fit
C12_ConcurrentChecksKeepExtrema ==
    (threads.pc = "running" /\ \A i \in 1..2 : threads.t[i].at = "done") =>
        /\ I0_min.v = OneAfterTheOther.I0_min.v
        /\ min_step.v = OneAfterTheOther.min_step.v
        /\ max_dev.v = OneAfterTheOther.max_dev.v
        /\ \A rec \in {I0_min, min_step, max_dev} :
               rec.who # 0 =>
                   LET own == check([I0_min |-> [v |-> inf, wl |-> -1, who |-> 0],
                                     min_step |-> [v |-> inf, wl |-> -1, mu |-> -1, who |-> 0],
                                     max_dev |-> [v |-> 0, wl |-> -1, mu |-> -1, who |-> 0]],
                                    muB_arr, F, fits[rec.who], rec.who)
                   IN  rec \in {own.I0_min, own.min_step, own.max_dev}

====
